---- MODULE Spec2Model ----
(***************************************************************************)
(* Model of the crypto_pipeline batch pipeline:                            *)
(*   extract.py   (fetch CoinGecko ticks and Kraken OHLC, write raw CSVs)  *)
(*   transform.py (normalize both raw tables, combine, write CSV)          *)
(*   load.py      (replace the PostgreSQL table with the transformed CSV)  *)
(*                                                                         *)
(* Timestamps are minutes after a UTC midnight.  Prices and volumes are    *)
(* naturals.  A cell of a raw CSV is either a number or BadText, text that *)
(* pandas cannot parse; the errors="coerce" conversions turn it into       *)
(* NaT / NaN.  Assumes a pandas 2.x build (format="mixed" and the "T"      *)
(* frequency alias both work), where Series.pct_change pads nulls by       *)
(* default.                                                                *)
(***************************************************************************)
EXTENDS Integers, Sequences, FiniteSets, TLC

\* ------------------------------------------------------------ bounds
\* Raw rows per Kraken table, ticks per CoinGecko table.
MaxRows == 2
MaxTicks == 2
\* Grid slots after the first: raw timestamps reach MaxBucket * INTERVAL_MIN.
MaxBucket == 2

\* --------------------------------------------------- program constants
INTERVAL_MIN == 5
\* DEFAULT_SPIKE_PCT = 0.10, as a percentage.
DEFAULT_SPIKE_PCT == 10
DEFAULT_TABLE == "fact_price_candle"
ASSET == "BITCOIN"

\* A null cell after coercion (NaN / pd.NA), a null timestamp (NaT), and a raw
\* cell that does not parse.
NaN == -1
NaT == -1
BadText == -2

\* ------------------------------------------------------------ helpers
Range(s) == {s[i] : i \in DOMAIN s}

SeqsUpTo(S, n) == UNION {[1..k -> S] : k \in 0..n}

Perms(n) == {p \in [1..n -> 1..n] : \A i, j \in 1..n : i # j => p[i] # p[j]}

MinOf(S) == CHOOSE x \in S : \A y \in S : x <= y

MaxOf(S) == CHOOSE x \in S : \A y \in S : y <= x

RECURSIVE SelectIdx(_, _, _)
SelectIdx(s, I, i) ==
    IF i > Len(s) THEN <<>>
    ELSE (IF i \in I THEN <<s[i]>> ELSE <<>>) \o SelectIdx(s, I, i + 1)

\* pd.to_datetime(..., errors="coerce"): what does not parse becomes NaT.
ensure_utc(cell) == IF cell = BadText THEN NaT ELSE cell

\* pd.to_numeric(..., errors="coerce"): what does not parse becomes NaN.
to_numeric(cell) == IF cell = BadText THEN NaN ELSE cell

\* The orders DataFrame.sort_values(key) may produce: ascending, NaT last.  The
\* default kind is quicksort, which is not stable, so rows with equal keys come
\* out in any order.
SortOrders(keys) ==
    {p \in Perms(Len(keys)) :
        \A i, j \in 1..Len(keys) :
            i < j => \/ keys[p[j]] = NaT
                     \/ (keys[p[i]] # NaT /\ keys[p[i]] <= keys[p[j]])}

\* drop_duplicates(keep=False): every row whose key occurs twice is dropped.
drop_duplicates_none(df, keys) ==
    SelectIdx(df, {i \in 1..Len(df) :
                      \A j \in 1..Len(df) : j # i => keys[j] # keys[i]}, 1)

\* DataFrame.drop_duplicates(key): the first row of each key value is kept
\* (two NaT keys count as equal).
drop_duplicates(df, keys) ==
    SelectIdx(df, {i \in 1..Len(df) : \A j \in 1..(i - 1) : keys[j] # keys[i]}, 1)

\* ------------------------------------------------------- quality flags
\* A comparison of two float cells: False when either is NaN.
Lt(a, b) == a # NaN /\ b # NaN /\ a < b

\* _flag_bad_candle without its last comparison, low > high.
flag_bad_candle_four(r) ==
    \/ Lt(r.high, r.open)
    \/ Lt(r.high, r.close)
    \/ Lt(r.open, r.low)
    \/ Lt(r.close, r.low)

\* _flag_bad_candle on one row; fillna(False) finds nothing to fill, the
\* comparisons are already boolean.
flag_bad_candle(r) ==
    \/ Lt(r.high, r.open)
    \/ Lt(r.high, r.close)
    \/ Lt(r.open, r.low)
    \/ Lt(r.close, r.low)
    \/ Lt(r.high, r.low)

\* Series.pct_change() with its default fill_method="pad": the closes are
\* forward-filled first, a leading null stays null.
RECURSIVE Pad(_, _)
Pad(closes, i) ==
    IF i = 0 THEN NaN
    ELSE IF closes[i] # NaN THEN closes[i]
    ELSE Pad(closes, i - 1)

Abs(x) == IF x < 0 THEN 0 - x ELSE x

\* |cur / prev - 1| > spike_pct on floats: NaN compares False, x / 0 is inf
\* for x > 0 and NaN for x = 0.
PctChangeExceeds(prev, cur, spike_pct) ==
    /\ prev # NaN
    /\ cur # NaN
    /\ IF prev = 0 THEN cur # 0
       ELSE Abs(cur - prev) * 100 > spike_pct * prev

\* _flag_spike, row i of the table whose closes are given.
flag_spike(closes, i, spike_pct) ==
    PctChangeExceeds(Pad(closes, i - 1), Pad(closes, i), spike_pct)

\* The two flags combined with & instead of |.
anomaly_and(bad, spike) == bad /\ spike

\* df["anomaly_flag"] = df["bad_candle"] | df["spike_flag"]
anomaly_of(bad, spike) == bad \/ spike

\* The flag columns added to a reindexed table (transform.py 73-76, 127-130).
WithFlags(rows, spike_pct) ==
    LET closes == [i \in DOMAIN rows |-> rows[i].close]
    IN  [i \in DOMAIN rows |->
            LET bad == flag_bad_candle(rows[i])
                spike == flag_spike(closes, i, spike_pct)
            IN  [source |-> rows[i].source,
                 asset |-> rows[i].asset,
                 interval_min |-> rows[i].interval_min,
                 ts_start |-> rows[i].ts_start,
                 open |-> rows[i].open,
                 high |-> rows[i].high,
                 low |-> rows[i].low,
                 close |-> rows[i].close,
                 vwap |-> rows[i].vwap,
                 volume |-> rows[i].volume,
                 count |-> rows[i].count,
                 is_missing |-> (rows[i].open = NaN),
                 bad_candle |-> bad,
                 spike_flag |-> spike,
                 anomaly_flag |-> anomaly_of(bad, spike)]]

\* The result of a call: a table, or an exception.
Ok(rows) == [status |-> "ok", rows |-> rows]

Raised == [status |-> "raised", rows |-> <<>>]

NotCalled == [status |-> "none", rows |-> <<>>]

\* date_range with the end left out.
date_range_open(lo, hi, freq) ==
    [k \in 1..((hi - lo + freq - 1) \div freq) |-> lo + (k - 1) * freq]

\* pd.date_range(lo, hi, freq): lo, lo + freq, ... up to hi.
date_range(lo, hi, freq) ==
    [k \in 1..((hi - lo) \div freq + 1) |-> lo + (k - 1) * freq]

\* ----------------------------------------------------- normalize_kraken
\* order: the permutation sort_values("time") produced.
normalize_kraken(df, order, interval_min, spike_pct) ==
    LET parsed == [i \in DOMAIN df |-> [df[i] EXCEPT !.time = ensure_utc(@)]]
        sorted == [i \in DOMAIN df |-> parsed[order[i]]]
        dedup == drop_duplicates(sorted, [i \in DOMAIN sorted |-> sorted[i].time])
        num == [i \in DOMAIN dedup |->
                   [time |-> dedup[i].time,
                    open |-> to_numeric(dedup[i].open),
                    high |-> to_numeric(dedup[i].high),
                    low |-> to_numeric(dedup[i].low),
                    close |-> to_numeric(dedup[i].close),
                    vwap |-> to_numeric(dedup[i].vwap),
                    volume |-> to_numeric(dedup[i].volume),
                    count |-> to_numeric(dedup[i].count)]]
        index == {num[i].time : i \in DOMAIN num} \ {NaT}
    IN  IF index = {}
        THEN Raised  \* date_range(NaT, NaT): ValueError
        ELSE
          LET full_index == date_range(MinOf(index), MaxOf(index), interval_min)
              reindexed ==
                [k \in DOMAIN full_index |->
                    LET hit == {i \in DOMAIN num : num[i].time = full_index[k]}
                    IN  IF hit = {}
                        THEN [source |-> "kraken", asset |-> ASSET,
                              interval_min |-> interval_min,
                              ts_start |-> full_index[k],
                              open |-> NaN, high |-> NaN, low |-> NaN,
                              close |-> NaN, vwap |-> NaN, volume |-> NaN,
                              count |-> NaN]
                        ELSE LET r == num[CHOOSE i \in hit : TRUE]
                             IN  [source |-> "kraken", asset |-> ASSET,
                                  interval_min |-> interval_min,
                                  ts_start |-> full_index[k],
                                  open |-> r.open, high |-> r.high,
                                  low |-> r.low, close |-> r.close,
                                  vwap |-> r.vwap, volume |-> r.volume,
                                  count |-> r.count]]
          IN  Ok(WithFlags(reindexed, spike_pct))

\* -------------------------------------------------- normalize_coingecko
RECURSIVE SumSeq(_)
SumSeq(s) == IF s = <<>> THEN 0 ELSE Head(s) + SumSeq(Tail(s))

\* Resampler.sum() on one bucket: the total of the non-null values.
mean_total(vals) ==
    LET present == SelectSeq(vals, LAMBDA v : v # NaN)
    IN  IF present = <<>> THEN NaN ELSE SumSeq(present)

\* Resampler.mean(): the mean of the non-null values, NaN when there is none.
\* Tick volumes are drawn from multiples of 12, so the quotient is exact.
mean(vals) ==
    LET present == SelectSeq(vals, LAMBDA v : v # NaN)
    IN  IF present = <<>> THEN NaN ELSE SumSeq(present) \div Len(present)

\* An aggregation with max and min interchanged.
ohlc_swapped(prices) ==
    LET present == SelectSeq(prices, LAMBDA v : v # NaN)
    IN  IF present = <<>>
        THEN [open |-> NaN, high |-> NaN, low |-> NaN, close |-> NaN]
        ELSE [open |-> present[1],
              high |-> MinOf(Range(present)),
              low |-> MaxOf(Range(present)),
              close |-> present[Len(present)]]

\* Resampler.ohlc() on one bucket: first, max, min and last of the non-null
\* prices in time order, all NaN when there is none.
ohlc(prices) ==
    LET present == SelectSeq(prices, LAMBDA v : v # NaN)
    IN  IF present = <<>>
        THEN [open |-> NaN, high |-> NaN, low |-> NaN, close |-> NaN]
        ELSE [open |-> present[1],
              high |-> MaxOf(Range(present)),
              low |-> MinOf(Range(present)),
              close |-> present[Len(present)]]

\* The left edge of the bucket a timestamp falls in (resample, closed and
\* labelled left, origin at midnight).
BucketOf(ts, freq) == (ts \div freq) * freq

\* order: the permutation sort_values("ts") produced.
normalize_coingecko(df, order, interval_min, spike_pct) ==
    LET parsed == [i \in DOMAIN df |-> [df[i] EXCEPT !.ts = ensure_utc(@)]]
        sorted == [i \in DOMAIN df |-> parsed[order[i]]]
        dedup == drop_duplicates(sorted, [i \in DOMAIN sorted |-> sorted[i].ts])
        num == [i \in DOMAIN dedup |->
                   [ts |-> dedup[i].ts,
                    price |-> to_numeric(dedup[i].price),
                    volume |-> to_numeric(dedup[i].volume)]]
        \* resample drops the rows whose index is NaT
        ticks == SelectSeq(num, LAMBDA r : r.ts # NaT)
    IN  IF num = <<>>
        THEN Ok(<<>>)  \* resampling an empty frame gives an empty frame
        ELSE IF ticks = <<>>
        THEN Raised  \* every index value is NaT: the bin edges are NaT
        ELSE
          LET first == BucketOf(ticks[1].ts, interval_min)
              last == BucketOf(ticks[Len(ticks)].ts, interval_min)
              labels == date_range(first, last, interval_min)
              out ==
                [k \in DOMAIN labels |->
                    LET inb == SelectSeq(ticks,
                                 LAMBDA r : BucketOf(r.ts, interval_min) = labels[k])
                        o == ohlc([i \in DOMAIN inb |-> inb[i].price])
                    IN  [source |-> "coingecko", asset |-> ASSET,
                         interval_min |-> interval_min,
                         ts_start |-> labels[k],
                         open |-> o.open, high |-> o.high, low |-> o.low,
                         close |-> o.close, vwap |-> NaN,
                         volume |-> mean([i \in DOMAIN inb |-> inb[i].volume]),
                         count |-> NaN]]
          IN  Ok(WithFlags(out, spike_pct))

\* ------------------------------------------------------------ transform
\* sort_values(["ts_start", "source"]) on the concatenation: a lexicographic
\* sort; (ts_start, source) is unique here, so the result is determined.
SourceRank(src) == IF src = "coingecko" THEN 0 ELSE 1

\* sort_values(..., ascending=False).
RowBeforeDesc(a, b) ==
    \/ a.ts_start > b.ts_start
    \/ (a.ts_start = b.ts_start /\ SourceRank(a.source) > SourceRank(b.source))

RowBefore(a, b) ==
    \/ a.ts_start < b.ts_start
    \/ (a.ts_start = b.ts_start /\ SourceRank(a.source) < SourceRank(b.source))

RECURSIVE sort_rows(_)
sort_rows(rows) ==
    IF rows = <<>> THEN <<>>
    ELSE LET least == {i \in DOMAIN rows :
                          \A j \in DOMAIN rows : ~RowBefore(rows[j], rows[i])}
             i == MinOf(least)  \* lexsort is stable
             rest == SelectIdx(rows, DOMAIN rows \ {i}, 1)
         IN  <<rows[i]>> \o sort_rows(rest)

\* transform with a drop_duplicates("ts_start") after the concatenation.
combine_dedup(cg_norm, kr_norm) ==
    LET all == cg_norm \o kr_norm
    IN  sort_rows(drop_duplicates(all, [i \in DOMAIN all |-> all[i].ts_start]))

combine(cg_norm, kr_norm) == sort_rows(cg_norm \o kr_norm)

\* ------------------------------------------------------------- extract
\* A raw Kraken row as extract.py writes it (columns of kraken_ohlc.csv).
KrRow(t, o, h, l, c, vw, vol, cnt) ==
    [time |-> t, open |-> o, high |-> h, low |-> l, close |-> c,
     vwap |-> vw, volume |-> vol, count |-> cnt]

\* A raw CoinGecko tick (columns of coingecko_data.csv).
Tick(t, p, v) == [ts |-> t, price |-> p, volume |-> v]

\* prices.merge(vols, on="ts_ms", how="left"): each price row with every
\* volume row of the same ts_ms, or with a null volume when there is none.
RECURSIVE merge_left(_, _)
merge_left(prices, vols) ==
    IF prices = <<>> THEN <<>>
    ELSE LET p == Head(prices)
             m == SelectSeq(vols, LAMBDA v : v[1] = p[1])
         IN  (IF m = <<>> THEN <<Tick(p[1], p[2], NaN)>>
              ELSE [i \in DOMAIN m |-> Tick(p[1], p[2], m[i][2])])
             \o merge_left(Tail(prices), vols)

\* fetch_coingecko_market_chart after the response arrived; order is the
\* permutation of the merged rows that sort_values("ts") produced.
fetch_coingecko_market_chart(prices, vols, order) ==
    LET df == merge_left(prices, vols)
        sorted == [i \in DOMAIN df |-> df[order[i]]]
    IN  drop_duplicates(sorted, [i \in DOMAIN sorted |-> sorted[i].ts])

\* A file or a database table: absent, or a sequence of rows.
NoFile == [exists |-> FALSE, rows |-> <<>>]

File(rows) == [exists |-> TRUE, rows |-> rows]

\* What the CoinGecko endpoint may answer: a transport or HTTP failure
\* (requests raises), or a market chart.
CgPayloads ==
    {[prices |-> <<>>, vols |-> <<>>],
     [prices |-> <<<<7, 150>>, <<0, 100>>, <<7, 100>>>>, vols |-> <<<<0, 12>>>>]}

CgResponses ==
    {[fail |-> f, prices |-> <<>>, vols |-> <<>>] : f \in {"network", "http"}}
    \cup {[fail |-> "none", prices |-> p.prices, vols |-> p.vols] : p \in CgPayloads}

\* What the Kraken endpoint may answer: a transport or HTTP failure, an empty
\* JSON object, an object with a non-empty error array, a result without a
\* pair key, or a result with the pair's OHLC rows.
KrPayloads ==
    {<<>>,
     <<KrRow(0, 100, 100, 100, 100, 100, 12, 3),
       KrRow(10, 150, 150, 150, 150, 150, 24, 5)>>}

KrResponses ==
    {[fail |-> f, json |-> "none", rows |-> <<>>] : f \in {"network", "http"}}
    \cup {[fail |-> "none", json |-> j, rows |-> <<>>] :
             j \in {"empty", "error", "no_pair"}}
    \cup {[fail |-> "none", json |-> "ohlc", rows |-> r] : r \in KrPayloads}

VARIABLES
    cgFile,     \* coingecko_data.csv
    krFile,     \* kraken_ohlc.csv
    outFile,    \* transformed_crypto_data.csv
    dbTable,    \* the table fact_price_candle
    cgNorm,     \* result of normalize_coingecko in the last transform run
    krNorm,     \* result of normalize_kraken in the last transform run
    step,       \* the script that ran last
    exitCode,   \* its exit status
    logged,     \* the stages it logged an error for
    cgFetch,    \* how the CoinGecko fetch of the last extract run ended
    krFetch,    \* how the Kraken fetch of the last extract run ended
    dbBefore    \* the table as the last load run found it

vars == <<cgFile, krFile, outFile, dbTable, cgNorm, krNorm, step, exitCode,
          logged, cgFetch, krFetch, dbBefore>>

Init ==
    /\ cgFile = NoFile
    /\ krFile = NoFile
    /\ outFile = NoFile
    /\ dbTable = NoFile
    /\ cgNorm = NotCalled
    /\ krNorm = NotCalled
    /\ step = "none"
    /\ exitCode = 0
    /\ logged = {}
    /\ cgFetch = "none"
    /\ krFetch = "none"
    /\ dbBefore = NoFile

\* extract.main: the CoinGecko block (lines 68-75), then the Kraken block
\* (lines 81-107).  sys.exit raises SystemExit, which "except Exception" does
\* not catch.
Extract ==
    \E cg \in CgResponses, kr \in KrResponses :
    \E order \in SortOrders([i \in DOMAIN merge_left(cg.prices, cg.vols) |->
                                merge_left(cg.prices, cg.vols)[i].ts]) :
        LET cgOk == cg.fail = "none"
            krWrites == kr.fail = "none" /\ kr.json = "ohlc"
            krExit == IF kr.fail # "none" \/ kr.json = "empty" THEN 1 ELSE 0
        IN  /\ cgFile' = IF cgOk
                         THEN File(fetch_coingecko_market_chart(cg.prices, cg.vols, order))
                         ELSE cgFile
            /\ krFile' = IF krWrites THEN File(kr.rows) ELSE krFile
            /\ cgFetch' = IF cgOk THEN "ok" ELSE "failed"
            /\ krFetch' = IF kr.fail # "none" THEN "failed" ELSE kr.json
            /\ logged' = (IF cgOk THEN {} ELSE {"coingecko"})
                         \cup (IF krWrites THEN {} ELSE {"kraken"})
            /\ exitCode' = krExit
            /\ step' = "extract"
            /\ UNCHANGED <<outFile, dbTable, cgNorm, krNorm, dbBefore>>

\* transform.main: read both raw CSVs, normalize, combine, write the CSV.  An
\* exception (a missing file, a failed normalize) ends the process with a
\* traceback and exit status 1 before to_csv.
Transform ==
    \E ocg \in SortOrders([i \in DOMAIN cgFile.rows |-> ensure_utc(cgFile.rows[i].ts)]),
       okr \in SortOrders([i \in DOMAIN krFile.rows |-> ensure_utc(krFile.rows[i].time)]) :
        LET found == cgFile.exists /\ krFile.exists
            cg == IF found
                  THEN normalize_coingecko(cgFile.rows, ocg, INTERVAL_MIN, DEFAULT_SPIKE_PCT)
                  ELSE NotCalled
            kr == IF cg.status = "ok"
                  THEN normalize_kraken(krFile.rows, okr, INTERVAL_MIN, DEFAULT_SPIKE_PCT)
                  ELSE NotCalled
            done == cg.status = "ok" /\ kr.status = "ok"
        IN  /\ cgNorm' = cg
            /\ krNorm' = kr
            /\ outFile' = IF done THEN File(combine(cg.rows, kr.rows)) ELSE outFile
            /\ exitCode' = IF done THEN 0 ELSE 1
            /\ logged' = {}
            /\ step' = "transform"
            /\ UNCHANGED <<cgFile, krFile, dbTable, cgFetch, krFetch, dbBefore>>

\* to_sql(..., if_exists="append"): the rows are added to those in the table.
to_sql_append(old, new) == File(old.rows \o new)

\* df.to_sql(table_name, engine, if_exists="replace"): the table is dropped and
\* created again from the frame.
to_sql(old, new) == File(new)

\* load.main: read the transformed CSV and replace the table with it.  to_sql
\* runs in one transaction, so a failed write leaves the table as it was.
Load ==
    \E db \in {"ok", "engine_error", "write_error"} :
        LET found == outFile.exists
            written == found /\ db = "ok"
        IN  /\ dbTable' = IF written THEN to_sql(dbTable, outFile.rows) ELSE dbTable
            /\ dbBefore' = dbTable
            /\ exitCode' = IF written THEN 0 ELSE 1
            /\ logged' = IF found /\ db # "ok" THEN {"load"} ELSE {}
            /\ step' = "load"
            /\ UNCHANGED <<cgFile, krFile, outFile, cgNorm, krNorm, cgFetch, krFetch>>

Next == Extract \/ Transform \/ Load

Spec == Init /\ [][Next]_vars

\* ------------------------------------------- the normalizers on any input
\* Raw timestamps: unparseable text, the first grid points, one minute off the
\* grid, and the last grid point.
RawTimes ==
    {BadText, 0, INTERVAL_MIN, INTERVAL_MIN + 2, MaxBucket * INTERVAL_MIN}

\* (open, high, low, close, vwap, volume, count) of a raw Kraken row: consistent
\* candles, each inconsistency on its own, and cells that do not parse.  No two
\* closes are exactly 10% apart (the float comparison is inexact there).
KrShapes ==
    <<<<100, 100, 100, 100, 100, 12, 3>>,
      <<150, 150, 150, 150, 150, 24, 5>>,
      <<100, 150, 100, 105, 101, 12, 3>>,
      <<10, 5, 1, 8, 6, 12, 3>>,
      <<150, 105, 100, 100, 101, 12, 3>>,
      <<100, 105, 100, 150, 101, 12, 3>>,
      <<100, 150, 105, 150, 101, 12, 3>>,
      <<150, 150, 105, 100, 101, 12, 3>>,
      <<BadText, 100, 150, BadText, 101, 12, 3>>,
      <<BadText, 150, 100, 105, 101, 12, 3>>,
      <<100, 150, 100, BadText, BadText, BadText, BadText>>,
      <<BadText, BadText, BadText, BadText, BadText, BadText, BadText>>>>

\* The normalizers sort their input and rows with equal timestamps come out of
\* the sort in any order, so the outcomes depend on the rows of a table and not
\* on their order: one table per multiset of rows is drawn, its rows ordered by
\* a code that is not the timestamp.
KrCode(c) == c[1] * 100 + c[2]

KrAscending(f) == \A i \in 1..(Len(f) - 1) : KrCode(f[i]) <= KrCode(f[i + 1])

KrakenTables ==
    {[i \in DOMAIN f |->
        LET sh == KrShapes[f[i][1]]
        IN  KrRow(f[i][2], sh[1], sh[2], sh[3], sh[4], sh[5], sh[6], sh[7])] :
     f \in {g \in SeqsUpTo((DOMAIN KrShapes) \X RawTimes, MaxRows) :
               KrAscending(g)}}

\* Tick volumes are multiples of 12, so that the mean of up to four is whole.
TickPrices == {BadText, 100, 150}

TickVolumes == {BadText, 12, 24}

TickCode(c) == (c[1] * 100 + c[2]) * 100 + c[3]

TickAscending(f) ==
    \A i \in 1..(Len(f) - 1) : TickCode(f[i]) <= TickCode(f[i + 1])

CgTables ==
    {[i \in DOMAIN f |-> Tick(f[i][3], f[i][1], f[i][2])] :
     f \in {g \in SeqsUpTo(TickPrices \X TickVolumes \X RawTimes, MaxTicks) :
               TickAscending(g)}}

\* The other provider's table while one normalizer's input ranges over all
\* tables: it normalizes without an exception, to the buckets 0, 5 and 10.
RefCg == <<Tick(0, 100, 12), Tick(10, 150, 24)>>

RefKr ==
    <<KrRow(0, 100, 100, 100, 100, 100, 12, 3),
      KrRow(5, 100, 100, 100, 100, 100, 12, 3),
      KrRow(10, 150, 150, 150, 150, 150, 24, 5)>>

\* transform.py started on raw CSVs of any content.
InitNorm ==
    /\ \/ /\ cgFile \in {File(t) : t \in CgTables}
          /\ krFile = File(RefKr)
       \/ /\ cgFile = File(RefCg)
          /\ krFile \in {File(t) : t \in KrakenTables}
    /\ outFile = NoFile
    /\ dbTable = NoFile
    /\ cgNorm = NotCalled
    /\ krNorm = NotCalled
    /\ step = "none"
    /\ exitCode = 0
    /\ logged = {}
    /\ cgFetch = "none"
    /\ krFetch = "none"
    /\ dbBefore = NoFile

\* One run of transform.py on them.
NextNorm == step = "none" /\ Transform

SpecNorm == InitNorm /\ [][NextNorm]_vars

\* ================================================================ claims
\* The parseable timestamps of the two raw tables.
KrTimes == {ensure_utc(krFile.rows[i].time) : i \in DOMAIN krFile.rows} \ {NaT}

CgTimes == {ensure_utc(cgFile.rows[i].ts) : i \in DOMAIN cgFile.rows} \ {NaT}

Transformed == step = "transform"

\* ts_start rises by exactly interval_min from each row to the next.
EvenlySpaced(rows) ==
    \A i \in 1..(Len(rows) - 1) :
        rows[i + 1].ts_start = rows[i].ts_start + INTERVAL_MIN

OhlcvNull(r) ==
    /\ r.open = NaN
    /\ r.high = NaN
    /\ r.low = NaN
    /\ r.close = NaN
    /\ r.volume = NaN

\* C1: for a raw table with at least one timestamp, each normalizer returns
\* rows whose ts_start rise by exactly interval_min (so: strictly increasing,
\* no duplicate, no gap), from the bucket of the smallest raw timestamp to the
\* bucket of the largest one; a bucket without raw data is a row of nulls.
\* The Kraken grid starts at the smallest raw timestamp, the CoinGecko grid
\* at the interval boundary at or below it.
C1_GapFreeGrid ==
    /\ (Transformed /\ CgTimes # {}) =>
          /\ cgNorm.status = "ok"
          /\ Len(cgNorm.rows) >= 1
          /\ EvenlySpaced(cgNorm.rows)
          /\ LET first == cgNorm.rows[1].ts_start
                 last == cgNorm.rows[Len(cgNorm.rows)].ts_start
             IN  /\ first % INTERVAL_MIN = 0
                 /\ \A t \in CgTimes : first <= t /\ t < last + INTERVAL_MIN
                 /\ \E t \in CgTimes : t < first + INTERVAL_MIN
                 /\ \E t \in CgTimes : last <= t
          /\ \A i \in DOMAIN cgNorm.rows :
                LET r == cgNorm.rows[i]
                IN  (\A t \in CgTimes :
                        t < r.ts_start \/ t >= r.ts_start + INTERVAL_MIN)
                    => OhlcvNull(r)
    /\ (Transformed /\ KrTimes # {} /\ cgNorm.status = "ok") =>
          /\ krNorm.status = "ok"
          /\ Len(krNorm.rows) >= 1
          /\ EvenlySpaced(krNorm.rows)
          /\ LET first == krNorm.rows[1].ts_start
                 last == krNorm.rows[Len(krNorm.rows)].ts_start
             IN  /\ first \in KrTimes
                 /\ \A t \in KrTimes : first <= t /\ t < last + INTERVAL_MIN
          /\ \A i \in DOMAIN krNorm.rows :
                LET r == krNorm.rows[i]
                IN  r.ts_start \notin KrTimes => OhlcvNull(r)

\* C1 witness: both normalizers filled a gap: three buckets, the middle one
\* without raw data, from raw rows 10 minutes apart.
C1_Witness ==
    /\ Transformed
    /\ krFile.rows # RefKr
    /\ krNorm.status = "ok"
    /\ Len(krNorm.rows) = 3
    /\ krNorm.rows[2].is_missing
    /\ ~krNorm.rows[3].is_missing
    /\ cgNorm.status = "ok"
    /\ Len(cgNorm.rows) = 3
    /\ cgNorm.rows[2].is_missing

\* The raw Kraken rows whose timestamp is ts.
KrRawAt(ts) == {j \in DOMAIN krFile.rows : ensure_utc(krFile.rows[j].time) = ts}

\* C2: in the output of normalize_kraken a row is_missing exactly when no raw
\* row has its ts_start; a missing row has open, high, low, close, vwap, volume
\* and count all null; a bucket with a raw row at its timestamp carries the
\* values of such a row.
C2_MissingIffNoRawRow ==
    (Transformed /\ krNorm.status = "ok") =>
        \A i \in DOMAIN krNorm.rows :
            LET r == krNorm.rows[i]
            IN  /\ r.is_missing <=> (KrRawAt(r.ts_start) = {})
                /\ r.is_missing =>
                      /\ OhlcvNull(r)
                      /\ r.vwap = NaN
                      /\ r.count = NaN
                /\ KrRawAt(r.ts_start) # {} =>
                      \E j \in KrRawAt(r.ts_start) :
                          LET raw == krFile.rows[j]
                          IN  /\ r.open = to_numeric(raw.open)
                              /\ r.high = to_numeric(raw.high)
                              /\ r.low = to_numeric(raw.low)
                              /\ r.close = to_numeric(raw.close)
                              /\ r.vwap = to_numeric(raw.vwap)
                              /\ r.volume = to_numeric(raw.volume)
                              /\ r.count = to_numeric(raw.count)

\* The spike rule as the claim states it: the close against the close of the
\* row right before, false when either is null.
SpikeOnAdjacent(rows, i) ==
    /\ i > 1
    /\ rows[i].close # NaN
    /\ rows[i - 1].close # NaN
    /\ Abs(rows[i].close - rows[i - 1].close) * 100
          > DEFAULT_SPIKE_PCT * rows[i - 1].close

\* C3: on every row of a normalized table spike_flag is true iff
\* |close[t] / close[t-1] - 1| > spike_pct with close[t-1] the close of the row
\* right before; it is false on the first row, on a row whose close is null and
\* on a row that follows a null close.
C3_SpikeBreaksAtNull ==
    /\ \A i \in DOMAIN krNorm.rows :
          krNorm.rows[i].spike_flag <=> SpikeOnAdjacent(krNorm.rows, i)
    /\ \A i \in DOMAIN cgNorm.rows :
          cgNorm.rows[i].spike_flag <=> SpikeOnAdjacent(cgNorm.rows, i)

\* Every row transform.py produced in its last run.
OutputRows == Range(cgNorm.rows) \cup Range(krNorm.rows) \cup Range(outFile.rows)

\* a < b on two cells that both hold a number.
Below(a, b) == a # NaN /\ b # NaN /\ a < b

\* C4: on every output row bad_candle is a boolean, true iff high < open,
\* high < close, low > open, low > close or low > high; a row whose open, high,
\* low and close are null has bad_candle false.
C4_BadCandle ==
    \A r \in OutputRows :
        /\ r.bad_candle \in BOOLEAN
        /\ r.bad_candle <=> \/ Below(r.high, r.open)
                            \/ Below(r.high, r.close)
                            \/ Below(r.open, r.low)
                            \/ Below(r.close, r.low)
                            \/ Below(r.high, r.low)
        /\ (r.open = NaN /\ r.high = NaN /\ r.low = NaN /\ r.close = NaN)
              => ~r.bad_candle

\* C4 witness: the candle open=10, high=5, low=1, close=8 is flagged, next to
\* a missing bucket that is not.
C4_Witness ==
    /\ Transformed
    /\ \E r \in Range(krNorm.rows) :
          r.open = 10 /\ r.high = 5 /\ r.low = 1 /\ r.close = 8 /\ r.bad_candle
    /\ \E r \in Range(krNorm.rows) : r.is_missing /\ ~r.bad_candle

\* C5: on every row of both normalized tables and of the combined table
\* anomaly_flag = (bad_candle OR spike_flag), and the three flags are booleans,
\* missing rows included.
C5_AnomalyIsOr ==
    \A r \in OutputRows :
        /\ r.bad_candle \in BOOLEAN
        /\ r.spike_flag \in BOOLEAN
        /\ r.anomaly_flag \in BOOLEAN
        /\ r.anomaly_flag = (r.bad_candle \/ r.spike_flag)

\* C5 witness: the combined table holds a missing row with no flag set, a row
\* flagged for a spike alone and a row flagged as a bad candle alone.
C5_Witness ==
    /\ Transformed
    /\ \E r \in Range(outFile.rows) : r.is_missing /\ ~r.anomaly_flag
    /\ \E r \in Range(outFile.rows) :
          r.spike_flag /\ ~r.bad_candle /\ r.anomaly_flag
    /\ \E r \in Range(outFile.rows) :
          r.bad_candle /\ ~r.spike_flag /\ r.anomaly_flag

\* C6: when a raw table is empty, or none of its timestamps parses, the
\* normalizer called on it raises and transform writes no output file.
C6_EmptyInputRaises ==
    Transformed =>
        /\ (cgFile.exists /\ krFile.exists /\ CgTimes = {}) =>
              (cgNorm.status = "raised" /\ exitCode # 0 /\ ~outFile.exists)
        /\ (krNorm.status # "none" /\ KrTimes = {}) =>
              (krNorm.status = "raised" /\ exitCode # 0 /\ ~outFile.exists)

\* The combined table transform returned in the run that just ended.
Combined == Transformed /\ exitCode = 0

\* C7: the combined table holds every row of both normalized tables and
\* nothing else (as many rows as the two together), ordered by ts_start
\* ascending; of two rows with the same ts_start the coingecko row comes first
\* and the kraken row second.
C7_CombinedSorted ==
    Combined =>
        LET out == outFile.rows
        IN  /\ Len(out) = Len(cgNorm.rows) + Len(krNorm.rows)
            /\ Range(out) = Range(cgNorm.rows) \cup Range(krNorm.rows)
            /\ \A i, j \in DOMAIN out :
                  i < j =>
                      \/ out[i].ts_start < out[j].ts_start
                      \/ /\ out[i].ts_start = out[j].ts_start
                         /\ out[i].source = "coingecko"
                         /\ out[j].source = "kraken"

\* C7 witness: both providers have a row at the same ts_start and both are in
\* the combined table, next to each other.
C7_Witness ==
    /\ Combined
    /\ \E i \in 1..(Len(outFile.rows) - 1) :
          /\ outFile.rows[i].ts_start = outFile.rows[i + 1].ts_start
          /\ outFile.rows[i].source = "coingecko"
          /\ outFile.rows[i + 1].source = "kraken"
    /\ \E i \in 1..(Len(outFile.rows) - 1) :
          /\ outFile.rows[i].ts_start < outFile.rows[i + 1].ts_start
          /\ outFile.rows[i].source = "kraken"

RowsOf(src) == SelectSeq(outFile.rows, LAMBDA r : r.source = src)

\* C8: the rows of one source, taken from the combined table in its order, are
\* that source's normalized table: same rows, same values, same order.
C8_SplitRoundTrip ==
    Combined =>
        /\ RowsOf("coingecko") = cgNorm.rows
        /\ RowsOf("kraken") = krNorm.rows

\* C8 witness: a combined table in which the rows of the two sources
\* interleave, each source with a gap row and at least three rows.
C8_Witness ==
    /\ Combined
    /\ Len(cgNorm.rows) >= 3
    /\ Len(krNorm.rows) >= 3
    /\ \E r \in Range(krNorm.rows) : r.is_missing
    /\ \E i \in 2..(Len(outFile.rows) - 1) :
          /\ outFile.rows[i].source = "kraken"
          /\ outFile.rows[i - 1].source = "coingecko"
          /\ outFile.rows[i + 1].source = "coingecko"

\* C9: an extract run whose Kraken response carries a non-empty error array
\* ends with a non-zero exit status, logs the error and writes no Kraken raw
\* table.
C9_KrakenErrorIsFatal ==
    [][(step' = "extract" /\ krFetch' = "error") =>
          (exitCode' # 0 /\ "kraken" \in logged' /\ krFile' = krFile)]_vars

\* C10: a run in which a fetch from either provider failed on the network or
\* with an HTTP error, or in which the load step failed to write, logs the
\* failure and ends with a non-zero exit status.
C10_FailuresAreFatal ==
    /\ (step = "extract" /\ cgFetch = "failed") =>
          (exitCode # 0 /\ "coingecko" \in logged)
    /\ (step = "extract" /\ krFetch = "failed") =>
          (exitCode # 0 /\ "kraken" \in logged)
    /\ (step = "load" /\ "load" \in logged) => exitCode # 0

\* The last extract run left a provider without a raw table of its own: the
\* CoinGecko fetch failed, or the Kraken fetch failed, answered with nothing,
\* with an error array or without a pair key.
FetchAborted ==
    \/ cgFetch = "failed"
    \/ krFetch \in {"failed", "empty", "error", "no_pair"}

\* C11: when a provider's fetch was aborted in the current run, so that the
\* run produced no raw table for that provider, the transform and load steps
\* that follow fail: they end with a non-zero exit status, the transformed
\* CSV is not written and the table is not touched, so what a run persists
\* always comes from that run's own fetches.
C11_AbortedFetchStopsRun ==
    [][(step' \in {"transform", "load"} /\ FetchAborted') =>
          (exitCode' # 0 /\ outFile' = outFile /\ dbTable' = dbTable)]_vars

\* Two frames hold the same rows, whatever their order.
SameRows(a, b) == Len(a) = Len(b) /\ Range(a) = Range(b)

KrCarries(r, raw) ==
    /\ r.open = to_numeric(raw.open)
    /\ r.high = to_numeric(raw.high)
    /\ r.low = to_numeric(raw.low)
    /\ r.close = to_numeric(raw.close)
    /\ r.vwap = to_numeric(raw.vwap)
    /\ r.volume = to_numeric(raw.volume)
    /\ r.count = to_numeric(raw.count)

\* The raw timestamps that lie on the Kraken grid, which starts at the
\* smallest of them.
KrOnGrid == {t \in KrTimes : (t - MinOf(KrTimes)) % INTERVAL_MIN = 0}

TickTs(i) == ensure_utc(cgFile.rows[i].ts)

TickPrice(i) == to_numeric(cgFile.rows[i].price)

TickVolume(i) == to_numeric(cgFile.rows[i].volume)

\* The ticks among S that fall in the bucket starting at ts.
InBucket(S, ts) ==
    {i \in S : TickTs(i) # NaT /\ ts <= TickTs(i) /\ TickTs(i) < ts + INTERVAL_MIN}

RECURSIVE SumVolume(_)
SumVolume(S) ==
    IF S = {} THEN 0
    ELSE LET i == CHOOSE x \in S : TRUE
         IN  TickVolume(i) + SumVolume(S \ {i})

\* Row r aggregates the ticks S, whose timestamps differ: first, highest,
\* lowest and last of their prices and the mean of their volumes, nulls left
\* aside.
AggregateOf(r, S) ==
    LET priced == {i \in S : TickPrice(i) # NaN}
        sized == {i \in S : TickVolume(i) # NaN}
    IN  /\ IF priced = {}
           THEN r.open = NaN /\ r.high = NaN /\ r.low = NaN /\ r.close = NaN
           ELSE /\ \E f \in priced :
                      /\ \A i \in priced : TickTs(f) <= TickTs(i)
                      /\ r.open = TickPrice(f)
                /\ \E l \in priced :
                      /\ \A i \in priced : TickTs(i) <= TickTs(l)
                      /\ r.close = TickPrice(l)
                /\ r.high = MaxOf({TickPrice(i) : i \in priced})
                /\ r.low = MinOf({TickPrice(i) : i \in priced})
        /\ IF sized = {}
           THEN r.volume = NaN
           ELSE r.volume * Cardinality(sized) = SumVolume(sized)

\* The choices of one tick for each distinct timestamp of the raw ticks.
OnePerTimestamp ==
    {S \in SUBSET (DOMAIN cgFile.rows) :
        /\ \A i \in S : TickTs(i) # NaT
        /\ \A t \in CgTimes : Cardinality({i \in S : TickTs(i) = t}) = 1}

\* For each distinct timestamp the tick that comes first in the raw table.
FirstPerTimestamp ==
    {i \in DOMAIN cgFile.rows :
        TickTs(i) # NaT /\ \A j \in 1..(i - 1) : TickTs(j) # TickTs(i)}

\* The normalized CoinGecko table is the aggregate of the ticks S.
CgBuiltFrom(S) ==
    /\ \A k \in DOMAIN cgNorm.rows :
          AggregateOf(cgNorm.rows[k], InBucket(S, cgNorm.rows[k].ts_start))
    /\ \A i \in S :
          \E k \in DOMAIN cgNorm.rows : i \in InBucket(S, cgNorm.rows[k].ts_start)

BucketTicks(ts) ==
    {T \in SUBSET InBucket(DOMAIN cgFile.rows, ts) :
        \A i \in InBucket(DOMAIN cgFile.rows, ts) :
            Cardinality({j \in T : TickTs(j) = TickTs(i)}) = 1}

\* Every tick with a timestamp falls in the bucket of exactly one row.
EveryTickInOneBucket ==
    \A i \in DOMAIN cgFile.rows :
        TickTs(i) # NaT =>
            Cardinality({k \in DOMAIN cgNorm.rows :
                            i \in InBucket({i}, cgNorm.rows[k].ts_start)}) = 1

\* The aggregate as the claim states it: the prices of the earliest and of the
\* latest tick, whatever they are, the highest and the lowest price, the mean
\* of the volumes.
AggregateAsStated(r, T) ==
    LET priced == {i \in T : TickPrice(i) # NaN}
        sized == {i \in T : TickVolume(i) # NaN}
    IN  IF T = {}
        THEN OhlcvNull(r)
        ELSE /\ \E f \in T : /\ \A i \in T : TickTs(f) <= TickTs(i)
                             /\ r.open = TickPrice(f)
             /\ \E l \in T : /\ \A i \in T : TickTs(i) <= TickTs(l)
                             /\ r.close = TickPrice(l)
             /\ priced # {} =>
                   /\ r.high = MaxOf({TickPrice(i) : i \in priced})
                   /\ r.low = MinOf({TickPrice(i) : i \in priced})
             /\ sized # {} => r.volume * Cardinality(sized) = SumVolume(sized)

\* C14 as stated: every tick falls in exactly one bucket; a bucket with a tick
\* has the price of its earliest tick as open, of its latest tick as close,
\* the highest and lowest tick price as high and low and the mean of the tick
\* volumes as volume; a bucket without a tick has them all null.
C14_BucketAggregates ==
    (Transformed /\ CgTimes # {}) =>
        /\ cgNorm.status = "ok"
        /\ EveryTickInOneBucket
        /\ \A k \in DOMAIN cgNorm.rows :
              \E T \in BucketTicks(cgNorm.rows[k].ts_start) :
                  AggregateAsStated(cgNorm.rows[k], T)

\* C14 amended: open and close are the prices of the earliest and of the
\* latest tick of the bucket that has a price, high and low the highest and
\* lowest price, volume the mean of the volumes there are; open, high, low and
\* close are null when no tick of the bucket has a price, volume when none has
\* a volume.
C14_BucketAggregatesOfPresent ==
    (Transformed /\ CgTimes # {}) =>
        /\ cgNorm.status = "ok"
        /\ EveryTickInOneBucket
        /\ \A k \in DOMAIN cgNorm.rows :
              \E T \in BucketTicks(cgNorm.rows[k].ts_start) :
                  AggregateOf(cgNorm.rows[k], T)

\* A bucket of two ticks with different prices and volumes: open and close
\* differ and the volume lies between the two.
C14_Witness ==
    /\ Transformed /\ cgNorm.status = "ok"
    /\ \E k \in DOMAIN cgNorm.rows :
          LET r == cgNorm.rows[k]
          IN  /\ Cardinality(InBucket(DOMAIN cgFile.rows, r.ts_start)) = 2
              /\ r.open # NaN /\ r.close # NaN /\ r.open # r.close
              /\ r.high # r.low
              /\ r.volume = 18

\* C15: every row of normalize_coingecko has bad_candle false, whatever the
\* ticks: on a row with prices low <= open, close <= high, the four being
\* taken from the same ticks; hence anomaly_flag equals spike_flag there.
C15_CoingeckoNeverBad ==
    Transformed =>
        \A k \in DOMAIN cgNorm.rows :
            LET r == cgNorm.rows[k]
            IN  /\ ~r.bad_candle
                /\ r.anomaly_flag = r.spike_flag
                /\ ~r.is_missing =>
                      /\ r.low <= r.open /\ r.open <= r.high
                      /\ r.low <= r.close /\ r.close <= r.high

\* A CoinGecko candle with a range: its ticks moved from the low to the high,
\* and it is not a bad candle.
C15_Witness ==
    /\ Transformed /\ cgNorm.status = "ok"
    /\ \E k \in DOMAIN cgNorm.rows :
          LET r == cgNorm.rows[k]
          IN  /\ ~r.is_missing
              /\ r.low < r.high
              /\ r.open = r.low /\ r.close = r.high
              /\ ~r.bad_candle
====
